---- MODULE Spec2Model ----
(***************************************************************************)
(* A state-machine model of the PyDrops blog and account code:             *)
(*   src/blog/views.py      post_list, post_detail, post_share,            *)
(*                          post_comment                                   *)
(*   src/authuser/models.py CustomUserManager, User                        *)
(* The stores (posts, comments, users, outbox) are the persistent state;   *)
(* every view is one action that records the request it served, the        *)
(* response it produced and the events it emitted on the way.              *)
(***************************************************************************)
EXTENDS Integers, Sequences, FiniteSets, TLC

VARIABLES posts, comments, submitted, outbox, users, request, response, trace, userResult

vars == <<posts, comments, submitted, outbox, users, request, response, trace, userResult>>

(***************************************************************************)
(* Bounds of the model                                                     *)
(***************************************************************************)
MaxPosts == 7
MaxBlogPosts == 2
MaxComments == 2
MaxMails == 1
MaxUsers == 2
MaxPageArg == 3

(***************************************************************************)
(* Posts                                                                   *)
(***************************************************************************)
PUBLISHED == "PB"
DRAFT == "DF"
Statuses == {DRAFT, PUBLISHED}
Slugs == {"a", "b"}
TagSlugs == {"t1"}

PublishDate(i) == [year |-> 2024, month |-> 1, day |-> i]

MkPost(i, status, slug, tags) ==
    [id |-> i, status |-> status, slug |-> slug, publish |-> PublishDate(i), tags |-> tags]

NoPost == [id |-> 0, status |-> "", slug |-> "", publish |-> PublishDate(0), tags |-> {}]

DateKey(d) == (d.year * 12 + d.month) * 31 + d.day

\* Remove the element at index i of a sequence.
RemoveAt(s, i) == SubSeq(s, 1, i - 1) \o SubSeq(s, i + 1, Len(s))

\* order_by('-publish'): latest publish date first.
RECURSIVE OrderByPublishDesc(_)
OrderByPublishDesc(s) ==
    IF s = <<>> THEN <<>>
    ELSE LET i == CHOOSE k \in 1..Len(s) :
                     \A j \in 1..Len(s) :
                         \/ DateKey(s[k].publish) > DateKey(s[j].publish)
                         \/ (DateKey(s[k].publish) = DateKey(s[j].publish) /\ k <= j)
         IN <<s[i]>> \o OrderByPublishDesc(RemoveAt(s, i))

IsPublished(p) == p.status = PUBLISHED

\* Post.published.all(): the published projection of the post table.
Published == OrderByPublishDesc(SelectSeq(posts, IsPublished))

\* get_object_or_404(Tag, slug=tag_slug): a tag row exists once a post carries it.
TagExists(tag_slug) == \E i \in 1..Len(posts) : tag_slug \in posts[i].tags

\* post_list.filter(tags__in=[tag])
FilterByTag(s, tag_slug) ==
    LET HasTag(p) == tag_slug \in p.tags IN SelectSeq(s, HasTag)

(***************************************************************************)
(* Page tokens: the raw value of the `page` query parameter, a string      *)
(* modelled as a sequence of characters.                                   *)
(***************************************************************************)
Digits == <<"0", "1", "2", "3", "4", "5", "6", "7", "8", "9">>

IsDigit(c) == \E i \in 1..Len(Digits) : Digits[i] = c

DigitVal(c) == (CHOOSE i \in 1..Len(Digits) : Digits[i] = c) - 1

RECURSIVE NatChars(_)
NatChars(n) == IF n < 10 THEN <<Digits[n + 1]>>
               ELSE NatChars(n \div 10) \o <<Digits[(n % 10) + 1]>>

IntChars(n) == IF n < 0 THEN <<"-">> \o NatChars(-n) ELSE NatChars(n)

RECURSIVE DigitsVal(_)
DigitsVal(s) == IF s = <<>> THEN 0
                ELSE DigitsVal(SubSeq(s, 1, Len(s) - 1)) * 10 + DigitVal(s[Len(s)])

RECURSIVE Strip(_)
Strip(s) == IF s = <<>> THEN s
            ELSE IF s[1] = " " THEN Strip(Tail(s))
            ELSE IF s[Len(s)] = " " THEN Strip(SubSeq(s, 1, Len(s) - 1))
            ELSE s

\* int(number) on a string: surrounding blanks, an optional sign, then digits.
PyInt(tok) ==
    LET s == Strip(tok)
        signed == s # <<>> /\ s[1] \in {"+", "-"}
        body == IF signed THEN Tail(s) ELSE s
    IN IF body = <<>> \/ (\E i \in 1..Len(body) : ~IsDigit(body[i]))
       THEN [ok |-> FALSE, val |-> 0]
       ELSE [ok |-> TRUE,
             val |-> IF signed /\ s[1] = "-" THEN 0 - DigitsVal(body) ELSE DigitsVal(body)]

Absent == [present |-> FALSE, tok |-> <<>>]

PageTokens ==
    {IntChars(n) : n \in (0 - MaxPageArg)..MaxPageArg}
    \cup {<<>>, <<"x">>, <<"1", ".", "5">>, <<" ", "2">>, <<"0", "2">>, <<"1", "0">>}

PageParams == {Absent} \cup {[present |-> TRUE, tok |-> t] : t \in PageTokens}

(***************************************************************************)
(* Paginator(post_list, 3)                                                 *)
(***************************************************************************)
PageSize == 3

Min(a, b) == IF a < b THEN a ELSE b

\* Paginator.num_pages with allow_empty_first_page: an empty list has one page.
NumPages(object_list) ==
    LET hits == IF Len(object_list) < 1 THEN 1 ELSE Len(object_list)
    IN (hits + PageSize - 1) \div PageSize

\* request.GET.get('page', 1) followed by Paginator.validate_number.
ValidateNumber(object_list, page) ==
    LET n == IF page.present THEN PyInt(page.tok) ELSE [ok |-> TRUE, val |-> 1]
    IN IF ~n.ok THEN [exc |-> "PageNotAnInteger", number |-> 0]
       ELSE IF n.val < 1 THEN [exc |-> "EmptyPage", number |-> n.val]
       ELSE IF n.val > NumPages(object_list) THEN [exc |-> "EmptyPage", number |-> n.val]
       ELSE [exc |-> "", number |-> n.val]

\* A slicing slip: the page starts one page too far.
PageOfShifted(object_list, number) ==
    LET bottom == number * PageSize
        top == Min(bottom + PageSize, Len(object_list))
    IN [object_list |-> SubSeq(object_list, bottom + 1, top),
        number |-> number,
        num_pages |-> NumPages(object_list),
        has_next |-> number < NumPages(object_list),
        has_previous |-> number > 1]

\* Paginator.page(number) for a validated number: the slice and its Page object.
PageOf(object_list, number) ==
    LET bottom == (number - 1) * PageSize
        top == Min(bottom + PageSize, Len(object_list))
    IN [object_list |-> SubSeq(object_list, bottom + 1, top),
        number |-> number,
        num_pages |-> NumPages(object_list),
        has_next |-> number < NumPages(object_list),
        has_previous |-> number > 1]

NoPage == [object_list |-> <<>>, number |-> 0, num_pages |-> 0,
           has_next |-> FALSE, has_previous |-> FALSE]

\* The two handlers swapped: a non-integer goes to the last page.
PaginateNotIntegerToLast(object_list, page) ==
    LET v == ValidateNumber(object_list, page)
    IN IF v.exc = "PageNotAnInteger" THEN PageOf(object_list, NumPages(object_list))
       ELSE IF v.exc = "EmptyPage" THEN PageOf(object_list, NumPages(object_list))
       ELSE PageOf(object_list, v.number)

\* Every fallback clamps to the first page.
PaginateEmptyToFirst(object_list, page) ==
    LET v == ValidateNumber(object_list, page)
    IN IF v.exc = "PageNotAnInteger" THEN PageOf(object_list, 1)
       ELSE IF v.exc = "EmptyPage" THEN PageOf(object_list, 1)
       ELSE PageOf(object_list, v.number)

\* The try/except of post_list around paginator.page(page_number).
Paginate(object_list, page) ==
    LET v == ValidateNumber(object_list, page)
    IN IF v.exc = "PageNotAnInteger" THEN PageOf(object_list, 1)
       ELSE IF v.exc = "EmptyPage" THEN PageOf(object_list, NumPages(object_list))
       ELSE PageOf(object_list, v.number)

(***************************************************************************)
(* Requests and responses                                                  *)
(***************************************************************************)
NoForm == [bound |-> FALSE, data |-> <<>>, errors |-> {}]

NoComment == [id |-> 0, post |-> 0, name |-> "", email |-> "", body |-> "", active |-> FALSE]

NoUser == [email |-> <<>>, username |-> "", is_staff |-> FALSE, is_superuser |-> FALSE,
           is_active |-> FALSE, password |-> <<>>]

NoRequest == [view |-> "", method |-> "", tag_slug |-> "", page |-> Absent,
              year |-> 0, month |-> 0, day |-> 0, slug |-> "", post_id |-> 0,
              data |-> <<>>]

NoResponse == [kind |-> "none", template |-> "", page |-> NoPage, tag |-> "",
               post |-> NoPost, comments |-> <<>>, form |-> NoForm, sent |-> FALSE,
               comment |-> NoComment, exc |-> ""]

NotFound == [NoResponse EXCEPT !.kind = "NotFound"]

Render(template) == [NoResponse EXCEPT !.kind = "render", !.template = template]

(***************************************************************************)
(* post_list                                                               *)
(***************************************************************************)
\* The response of post_list for a tag slug ("" when none) and a page parameter.
PostListResponse(tag_slug, page) ==
    IF tag_slug # "" /\ ~TagExists(tag_slug) THEN NotFound
    ELSE LET object_list == IF tag_slug # "" THEN FilterByTag(Published, tag_slug)
                            ELSE Published
         IN [Render("blog/post/list.html") EXCEPT
                !.page = Paginate(object_list, page), !.tag = tag_slug]

post_list(tag_slug, page) ==
    /\ request' = [NoRequest EXCEPT !.view = "post_list", !.method = "GET",
                                    !.tag_slug = tag_slug, !.page = page]
    /\ response' = PostListResponse(tag_slug, page)
    /\ trace' = <<>>
    /\ UNCHANGED <<posts, comments, submitted, outbox, users, userResult>>

(***************************************************************************)
(* Specification of the listing over a fixed post table                    *)
(***************************************************************************)
\* Post tables of n posts: any mix of statuses, every other post tagged t1.
PostTables(n) ==
    {[i \in 1..n |-> MkPost(i, st[i], "a", IF i % 2 = 1 THEN {"t1"} ELSE {})] :
        st \in [1..n -> Statuses]}

InitStores ==
    /\ comments = <<>>
    /\ submitted = <<>>
    /\ outbox = <<>>
    /\ users = {}
    /\ request = NoRequest
    /\ response = NoResponse
    /\ trace = <<>>
    /\ userResult = [kind |-> "none", exc |-> "", user |-> NoUser, op |-> "",
                     email |-> <<>>, extra_fields |-> <<>>]

InitPage ==
    /\ \E n \in 0..MaxPosts : posts \in PostTables(n)
    /\ InitStores

RequestTags == {"", "t1", "zz"}

\* The listing with and without the tag filter (the tag is unknown while no post carries it).
PageTags == {"", "t1"}

NextPage == \E tag_slug \in PageTags, page \in PageParams : post_list(tag_slug, page)

SpecPage == InitPage /\ [][NextPage]_vars

(***************************************************************************)
(* The post table changes between requests: posts are written and their    *)
(* status is switched in the admin. No request is in flight afterwards.    *)
(***************************************************************************)
CreatePost(status, slug, tags) ==
    /\ Len(posts) < MaxBlogPosts
    /\ posts' = Append(posts, MkPost(Len(posts) + 1, status, slug, tags))
    /\ request' = NoRequest
    /\ response' = NoResponse
    /\ trace' = <<>>
    /\ UNCHANGED <<comments, submitted, outbox, users, userResult>>

SetStatus(i, status) ==
    /\ i \in 1..Len(posts)
    /\ posts[i].status # status
    /\ posts' = [posts EXCEPT ![i].status = status]
    /\ request' = NoRequest
    /\ response' = NoResponse
    /\ trace' = <<>>
    /\ UNCHANGED <<comments, submitted, outbox, users, userResult>>

(***************************************************************************)
(* Forms                                                                   *)
(***************************************************************************)
\* An e-mail field accepts one "@" with text on both sides and no blanks.
WellFormedEmail(e) ==
    /\ \E i \in 2..(Len(e) - 1) : e[i] = "@" /\ \A j \in 1..Len(e) : (e[j] = "@" => j = i)
    /\ \A j \in 1..Len(e) : e[j] # " "

\* EmailPostForm(request.POST).errors: the fields that fail validation.
EmailPostFormErrors(data) ==
    (IF data.name = "" THEN {"name"} ELSE {})
    \cup (IF WellFormedEmail(data.email) THEN {} ELSE {"email"})
    \cup (IF WellFormedEmail(data.to) THEN {} ELSE {"to"})

\* CommentForm(data=request.POST).errors: the fields that fail validation.
CommentFormErrors(data) ==
    (IF data.name = "" THEN {"name"} ELSE {})
    \cup (IF WellFormedEmail(data.email) THEN {} ELSE {"email"})
    \cup (IF data.body = "" THEN {"body"} ELSE {})

\* A new Comment row is active unless moderated.
CommentActiveDefault == TRUE

(***************************************************************************)
(* post_detail                                                             *)
(***************************************************************************)
\* A lookup that forgets the status filter.
DetailMatchesAnyStatus(year, month, day, slug) ==
    {i \in 1..Len(posts) :
        /\ posts[i].slug = slug
        /\ posts[i].publish.year = year
        /\ posts[i].publish.month = month
        /\ posts[i].publish.day = day}

\* The rows get_object_or_404 selects in post_detail.
DetailMatches(year, month, day, slug) ==
    {i \in 1..Len(posts) :
        /\ posts[i].status = PUBLISHED
        /\ posts[i].slug = slug
        /\ posts[i].publish.year = year
        /\ posts[i].publish.month = month
        /\ posts[i].publish.day = day}

\* post.comments.filter(active=True)
ActiveComments(post_id) ==
    LET Mine(c) == c.post = post_id /\ c.active IN SelectSeq(comments, Mine)

PostDetailResponse(year, month, day, slug) ==
    LET m == DetailMatches(year, month, day, slug)
    IN IF m = {} THEN NotFound
       ELSE IF Cardinality(m) > 1
       THEN [NoResponse EXCEPT !.kind = "error", !.exc = "MultipleObjectsReturned"]
       ELSE LET post == posts[CHOOSE i \in m : TRUE]
            IN [Render("blog/post/detail.html") EXCEPT
                   !.post = post, !.comments = ActiveComments(post.id), !.form = NoForm]

post_detail(year, month, day, slug) ==
    /\ request' = [NoRequest EXCEPT !.view = "post_detail", !.method = "GET",
                                    !.year = year, !.month = month, !.day = day,
                                    !.slug = slug]
    /\ response' = PostDetailResponse(year, month, day, slug)
    /\ trace' = <<>>
    /\ UNCHANGED <<posts, comments, submitted, outbox, users, userResult>>

(***************************************************************************)
(* get_object_or_404(Post, id=post_id, status=Post.Status.PUBLISHED)       *)
(***************************************************************************)
\* A lookup by id alone.
PostByIdAnyStatus(post_id) ==
    {i \in 1..Len(posts) : posts[i].id = post_id}

PublishedPostById(post_id) ==
    {i \in 1..Len(posts) : posts[i].id = post_id /\ posts[i].status = PUBLISHED}

(***************************************************************************)
(* post_share                                                              *)
(***************************************************************************)
Event(name) == [ev |-> name, to |-> <<>>, ok |-> TRUE]

SendMailEvent(to, ok) == [ev |-> "send_mail", to |-> to, ok |-> ok]

\* The arguments of send_mail(subject, message, from, [cd['to']]).
ShareMail(post, cd) ==
    [subject |-> <<cd.name, "recommends you read", post.id>>,
     message |-> <<"Read", post.id, cd.name, cd.comments>>,
     from_email |-> "cmwolfe.dev@gmail.com",
     recipient_list |-> <<cd.to>>]

\* A handler that swallows the gateway failure and still reports the mail sent.
ShareOutcomeSwallowsFailure(method, post, data, gateway_ok) ==
    IF method = "POST" /\ EmailPostFormErrors(data) = {}
    THEN [response |-> [Render("blog/post/share.html") EXCEPT
                           !.post = post, !.sent = TRUE,
                           !.form = [bound |-> TRUE, data |-> data, errors |-> {}]],
          mails |-> IF gateway_ok THEN <<ShareMail(post, data)>> ELSE <<>>,
          trace |-> <<SendMailEvent(<<data.to>>, gateway_ok), Event("sent"),
                      Event("render")>>]
    ELSE [response |-> [NoResponse EXCEPT !.kind = "error", !.exc = "UnboundLocalError"],
          mails |-> <<>>,
          trace |-> <<>>]

\* The body of post_share once the post is found: what it answers, the mail it
\* hands to the gateway, and the events on the way. `sent` is bound only on
\* the path that sent a mail, so every other path stops at line 103.
ShareOutcome(method, post, data, gateway_ok) ==
    IF method = "POST" /\ EmailPostFormErrors(data) = {}
    THEN IF gateway_ok
         THEN [response |-> [Render("blog/post/share.html") EXCEPT
                                !.post = post, !.sent = TRUE,
                                !.form = [bound |-> TRUE, data |-> data, errors |-> {}]],
               mails |-> <<ShareMail(post, data)>>,
               trace |-> <<SendMailEvent(<<data.to>>, TRUE), Event("sent"),
                           Event("render")>>]
         ELSE [response |-> [NoResponse EXCEPT !.kind = "error", !.exc = "DeliveryError"],
               mails |-> <<>>,
               trace |-> <<SendMailEvent(<<data.to>>, FALSE)>>]
    ELSE [response |-> [NoResponse EXCEPT !.kind = "error", !.exc = "UnboundLocalError"],
          mails |-> <<>>,
          trace |-> <<>>]

post_share(method, post_id, data, gateway_ok) ==
    LET m == PublishedPostById(post_id)
    IN /\ request' = [NoRequest EXCEPT !.view = "post_share", !.method = method,
                                       !.post_id = post_id, !.data = data]
       /\ IF m = {}
          THEN /\ response' = NotFound
               /\ trace' = <<>>
               /\ outbox' = outbox
          ELSE LET out == ShareOutcome(method, posts[CHOOSE i \in m : TRUE], data,
                                       gateway_ok)
               IN /\ Len(outbox) + Len(out.mails) <= MaxMails
                  /\ response' = out.response
                  /\ trace' = out.trace
                  /\ outbox' = outbox \o out.mails
       /\ UNCHANGED <<posts, comments, submitted, users, userResult>>

(***************************************************************************)
(* post_comment                                                            *)
(***************************************************************************)
\* A handler that saves the comment without binding it to the post.
CommentOutcomeUnbound(post, data) ==
    LET errors == CommentFormErrors(data)
        form == [bound |-> TRUE, data |-> data, errors |-> errors]
        comment == [id |-> Len(comments) + 1, post |-> 0, name |-> data.name,
                    email |-> data.email, body |-> data.body,
                    active |-> CommentActiveDefault]
    IN IF errors = {}
       THEN [response |-> [Render("blog/post/comment.html") EXCEPT
                              !.post = post, !.form = form, !.comment = comment],
             saved |-> <<comment>>]
       ELSE [response |-> [Render("blog/post/comment.html") EXCEPT
                              !.post = post, !.form = form, !.comment = NoComment],
             saved |-> <<>>]

\* The body of post_comment once the post is found: the answer and the rows saved.
CommentOutcome(post, data) ==
    LET errors == CommentFormErrors(data)
        form == [bound |-> TRUE, data |-> data, errors |-> errors]
        comment == [id |-> Len(comments) + 1, post |-> post.id, name |-> data.name,
                    email |-> data.email, body |-> data.body,
                    active |-> CommentActiveDefault]
    IN IF errors = {}
       THEN [response |-> [Render("blog/post/comment.html") EXCEPT
                              !.post = post, !.form = form, !.comment = comment],
             saved |-> <<comment>>]
       ELSE [response |-> [Render("blog/post/comment.html") EXCEPT
                              !.post = post, !.form = form, !.comment = NoComment],
             saved |-> <<>>]

\* A lookup in post_comment that accepts a post of any status.
CommentTargetAnyStatus(post_id) == PostByIdAnyStatus(post_id)

\* The rows get_object_or_404 selects in post_comment.
CommentTarget(post_id) == PublishedPostById(post_id)

post_comment(method, post_id, data) ==
    /\ request' = [NoRequest EXCEPT !.view = "post_comment", !.method = method,
                                    !.post_id = post_id, !.data = data]
    /\ trace' = <<>>
    /\ IF method # "POST"
       THEN /\ response' = [NoResponse EXCEPT !.kind = "MethodNotAllowed"]
            /\ UNCHANGED <<comments, submitted>>
       ELSE LET m == CommentTarget(post_id)
            IN IF m = {}
               THEN /\ response' = NotFound
                    /\ UNCHANGED <<comments, submitted>>
               ELSE LET post == posts[CHOOSE i \in m : TRUE]
                        out == CommentOutcome(post, data)
                    IN /\ Len(comments) + Len(out.saved) <= MaxComments
                       /\ response' = out.response
                       /\ comments' = comments \o out.saved
                       /\ submitted' = submitted \o [k \in 1..Len(out.saved) |-> post.status]
    /\ UNCHANGED <<posts, outbox, users, userResult>>

(***************************************************************************)
(* Specifications of the blog views                                        *)
(***************************************************************************)
InitBlog ==
    /\ posts = <<>>
    /\ InitStores

Methods == {"GET", "POST"}

GoodEmail == <<"a", "@", "x">>
OtherEmail == <<"b", "@", "x">>
BadEmail == <<"a", "x">>

NoData == <<>>

ShareForms == [name : {"", "ann"}, email : {BadEmail, GoodEmail},
               to : {BadEmail, OtherEmail}, comments : {"", "hi"}]

CommentForms == [name : {"", "ann"}, email : {BadEmail, GoodEmail}, body : {"", "hi"}]

\* Post ids a request may name: the stored ones and one that never exists.
RequestIds == 1..(MaxBlogPosts + 1)

RequestDates == {PublishDate(d) : d \in 1..MaxBlogPosts}
                \cup {[PublishDate(1) EXCEPT !.year = 2023],
                      [PublishDate(1) EXCEPT !.month = 2]}

ReadPageParams == {Absent, [present |-> TRUE, tok |-> <<"2">>],
                   [present |-> TRUE, tok |-> <<"x">>]}

WritePost == \E status \in Statuses, slug \in Slugs, tags \in SUBSET TagSlugs :
                 CreatePost(status, slug, tags)

WritePlainPost == \E status \in Statuses : CreatePost(status, "a", {})

SwitchStatus == \E i \in 1..MaxBlogPosts, status \in Statuses : SetStatus(i, status)

ListRequest == \E tag_slug \in RequestTags, page \in ReadPageParams :
                   post_list(tag_slug, page)

DetailRequest == \E d \in RequestDates, slug \in Slugs :
                     post_detail(d.year, d.month, d.day, slug)

ShareRequest ==
    \E post_id \in RequestIds :
        \/ post_share("GET", post_id, NoData, TRUE)
        \/ \E data \in ShareForms, gateway_ok \in BOOLEAN :
               post_share("POST", post_id, data, gateway_ok)

CommentRequest ==
    \E post_id \in RequestIds :
        \/ post_comment("GET", post_id, NoData)
        \/ \E data \in CommentForms : post_comment("POST", post_id, data)

NextRead == WritePost \/ SwitchStatus \/ ListRequest \/ DetailRequest

SpecRead == InitBlog /\ [][NextRead]_vars

NextShare == WritePlainPost \/ SwitchStatus \/ ShareRequest

SpecShare == InitBlog /\ [][NextShare]_vars

NextComment == WritePlainPost \/ SwitchStatus \/ CommentRequest

SpecComment == InitBlog /\ [][NextComment]_vars

(***************************************************************************)
(* CustomUserManager and the User table                                    *)
(***************************************************************************)
Lower(c) == CASE c = "A" -> "a" [] c = "B" -> "b" [] c = "X" -> "x" [] OTHER -> c

LowerAll(s) == [i \in 1..Len(s) |-> Lower(s[i])]

\* normalize_email: lower-case what follows the last "@"; leave anything else alone.
NormalizeEmail(email) ==
    LET s == Strip(email)
        ats == {i \in 1..Len(s) : s[i] = "@"}
    IN IF ats = {} THEN email
       ELSE LET at == CHOOSE i \in ats : \A j \in ats : j <= i
            IN SubSeq(s, 1, at) \o LowerAll(SubSeq(s, at + 1, Len(s)))

\* user.set_password(password): only a hash of the password is kept.
MakePassword(password) == <<"hashed", password>>

\* extra_fields.setdefault(key, value)
SetDefault(extra_fields, key, value) ==
    IF key \in DOMAIN extra_fields THEN extra_fields ELSE extra_fields @@ (key :> value)

\* The value of a model field: the keyword argument if given, else the field default.
FieldOf(extra_fields, key, default) ==
    IF key \in DOMAIN extra_fields THEN extra_fields[key] ELSE default

\* self.model(email=email, **extra_fields) followed by set_password.
NewUser(email, password, extra_fields) ==
    [email |-> email,
     username |-> FieldOf(extra_fields, "username", ""),
     is_staff |-> FieldOf(extra_fields, "is_staff", FALSE),
     is_superuser |-> FieldOf(extra_fields, "is_superuser", FALSE),
     is_active |-> TRUE,
     password |-> MakePassword(password)]

\* unique=True on email and on username: a save that would repeat either fails.
ViolatesUnique(user) ==
    \E u \in users : u.email = user.email \/ u.username = user.username

\* A manager that saves before it looks at the e-mail.
CreateUserResultUnchecked(email, password, extra_fields) ==
    LET user == NewUser(NormalizeEmail(email), password, extra_fields)
    IN IF ViolatesUnique(user) THEN [kind |-> "error", exc |-> "DuplicateKeyError", user |-> NoUser]
       ELSE [kind |-> "user", exc |-> "", user |-> user]

\* _create_user: the failure raised or the user saved.
CreateUserResult(email, password, extra_fields) ==
    IF email = <<>> THEN [kind |-> "error", exc |-> "ValidationError", user |-> NoUser]
    ELSE LET user == NewUser(NormalizeEmail(email), password, extra_fields)
         IN IF ViolatesUnique(user)
            THEN [kind |-> "error", exc |-> "DuplicateKeyError", user |-> NoUser]
            ELSE [kind |-> "user", exc |-> "", user |-> user]

_create_user(op, email, password, given, extra_fields) ==
    LET r == CreateUserResult(email, password, extra_fields)
    IN /\ (r.kind = "user" => Cardinality(users) < MaxUsers)
       /\ users' = IF r.kind = "user" THEN users \cup {r.user} ELSE users
       /\ userResult' = [kind |-> r.kind, exc |-> r.exc, user |-> r.user, op |-> op,
                         email |-> email, extra_fields |-> given]
       /\ UNCHANGED <<posts, comments, submitted, outbox, request, response, trace>>

\* The two setdefault calls of create_user.
CreateUserDefaults(extra_fields) ==
    SetDefault(SetDefault(extra_fields, "is_staff", FALSE), "is_superuser", FALSE)

\* The two setdefault calls of create_superuser.
CreateSuperuserDefaults(extra_fields) ==
    SetDefault(SetDefault(extra_fields, "is_staff", TRUE), "is_superuser", TRUE)

create_user(email, password, extra_fields) ==
    _create_user("create_user", email, password, extra_fields,
                 CreateUserDefaults(extra_fields))

create_superuser(email, password, extra_fields) ==
    _create_user("create_superuser", email, password, extra_fields,
                 CreateSuperuserDefaults(extra_fields))

\* The e-mail arguments tried: none, and addresses that differ in case only.
Emails == {<<>>, <<"a", "@", "x">>, <<"a", "@", "X">>, <<"b", "@", "x">>, <<"a">>}

Passwords == {"pw"}

NoFields == <<>>

ExtraFields == {NoFields,
                [is_staff |-> FALSE],
                [is_superuser |-> FALSE],
                [is_staff |-> TRUE, is_superuser |-> TRUE],
                [username |-> "u1"],
                [username |-> "u2", is_staff |-> FALSE, is_superuser |-> FALSE]}

InitUsers ==
    /\ posts = <<>>
    /\ InitStores

NextUsers ==
    \E email \in Emails, password \in Passwords, extra_fields \in ExtraFields :
        \/ create_user(email, password, extra_fields)
        \/ create_superuser(email, password, extra_fields)

SpecUsers == InitUsers /\ [][NextUsers]_vars

(***************************************************************************)
(* Properties of the listing                                               *)
(***************************************************************************)
\* The last request was a listing whose tag filter, if any, resolved.
ListingServed ==
    /\ request.view = "post_list"
    /\ (request.tag_slug = "" \/ TagExists(request.tag_slug))

\* The ordered result set the last listing paginated.
ResultSet ==
    IF request.tag_slug = "" THEN Published ELSE FilterByTag(Published, request.tag_slug)

\* The number of pages of n items: the least t >= 1 with t * PageSize >= n.
TotalPages(n) ==
    CHOOSE t \in 1..(n + 1) : t * PageSize >= n /\ (t = 1 \/ (t - 1) * PageSize < n)

\* The requested page as an integer, when the parameter reads as one.
Requested == IF request.page.present THEN PyInt(request.page.tok)
             ELSE [ok |-> TRUE, val |-> 1]

\* The response shows page p of the result set: its items, number and links.
ShowsPage(p) ==
    LET n == Len(ResultSet)
        first == (p - 1) * PageSize
        last == Min(p * PageSize, n)
        got == response.page
    IN /\ response.kind = "render"
       /\ got.number = p
       /\ Len(got.object_list) = (IF last > first THEN last - first ELSE 0)
       /\ \A k \in 1..Len(got.object_list) : got.object_list[k] = ResultSet[first + k]
       /\ got.has_previous = (p > 1)
       /\ got.has_next = (p < TotalPages(n))

\* C1 as stated: every token that is no positive integer (non-numeric, empty,
\* zero or negative) yields page 1.
C1_AsStated ==
    (ListingServed /\ request.page.present /\ (~Requested.ok \/ Requested.val < 1))
        => (response.kind = "render" /\ response.page.number = 1)

\* C1 amended: a token that does not read as an integer yields page 1; a token
\* that reads as zero or a negative integer yields the last page; neither raises.
C1_NonIntegerFirstPage ==
    (ListingServed /\ request.page.present) =>
        /\ (~Requested.ok => ShowsPage(1))
        /\ ((Requested.ok /\ Requested.val < 1) => ShowsPage(TotalPages(Len(ResultSet))))

C1_Witness ==
    /\ ListingServed
    /\ request.page = [present |-> TRUE, tok |-> <<"x">>]
    /\ Len(ResultSet) > PageSize
    /\ response.page.number = 1

\* C2: a positive page number beyond the last page yields the last page, for any
\* number of published posts; it is page 1 only when there is a single page.
C2_BeyondLastPage ==
    (ListingServed /\ Requested.ok /\ Requested.val > TotalPages(Len(ResultSet))) =>
        /\ ShowsPage(TotalPages(Len(ResultSet)))
        /\ response.page.num_pages = TotalPages(Len(ResultSet))
        /\ (response.page.number = 1 => Len(ResultSet) <= PageSize)

C2_Witness ==
    /\ ListingServed
    /\ Requested.ok /\ Requested.val > 3
    /\ Len(ResultSet) = 7
    /\ response.page.number = 3
    /\ Len(response.page.object_list) = 1

\* C3: every page p in 1..ceil(N/3) of a result set of N posts shows the items at
\* offsets (p-1)*3 .. min(p*3, N)-1 in order, with number p and the right links.
C3_PageSlice ==
    (ListingServed /\ Requested.ok /\ Requested.val >= 1
        /\ Requested.val * PageSize < Len(ResultSet) + PageSize)
        => ShowsPage(Requested.val)

C3_Witness ==
    /\ ListingServed
    /\ request.page = [present |-> TRUE, tok |-> <<"2">>]
    /\ Len(ResultSet) = 7
    /\ response.page.number = 2
    /\ Len(response.page.object_list) = 3
    /\ response.page.has_next /\ response.page.has_previous

(***************************************************************************)
(* Properties of the read views                                            *)
(***************************************************************************)
\* A stored DRAFT post answers to the natural key of the last detail request.
DraftUnderRequestedKey ==
    \E i \in 1..Len(posts) :
        /\ posts[i].status = DRAFT
        /\ posts[i].slug = request.slug
        /\ posts[i].publish = [year |-> request.year, month |-> request.month,
                               day |-> request.day]

\* C7: whatever posts were written and however their status was switched, a
\* listing (tag-filtered or not) shows PUBLISHED posts only, and a detail
\* request whose key names a DRAFT post is answered NotFound.
C7_OnlyPublishedExposed ==
    /\ (request.view = "post_list" /\ response.kind = "render") =>
           \A k \in 1..Len(response.page.object_list) :
               /\ response.page.object_list[k].status = PUBLISHED
               /\ posts[response.page.object_list[k].id] = response.page.object_list[k]
    /\ (request.view = "post_detail" /\ DraftUnderRequestedKey) =>
           response.kind = "NotFound"
    /\ (request.view = "post_detail" /\ response.kind = "render") =>
           (response.post.status = PUBLISHED /\ posts[response.post.id] = response.post)

C7_Witness ==
    /\ request.view = "post_detail"
    /\ DraftUnderRequestedKey
    /\ response.kind = "NotFound"
    /\ \E i \in 1..Len(posts) : posts[i].status = PUBLISHED

(***************************************************************************)
(* Properties of post_share                                                *)
(***************************************************************************)
SendEvents(t) == {i \in 1..Len(t) : t[i].ev = "send_mail"}

\* C4: a GET, and a POST with invalid fields, on a published post each end by
\* rendering a form (empty on GET, errored on POST) with sent false and no mail.
C4_FormRedisplayed ==
    (/\ request.view = "post_share"
     /\ PublishedPostById(request.post_id) # {}
     /\ (request.method = "GET"
            \/ (request.method = "POST" /\ EmailPostFormErrors(request.data) # {})))
    => /\ response.kind = "render"
       /\ ~response.sent
       /\ response.form.bound = (request.method = "POST")
       /\ SendEvents(trace) = {}

\* The last request was a share POST with valid fields on a published post.
ValidShare(req) ==
    /\ req.view = "post_share"
    /\ req.method = "POST"
    /\ EmailPostFormErrors(req.data) = {}
    /\ PublishedPostById(req.post_id) # {}

\* C10: a valid share POST makes one dispatch attempt, to the submitted
\* recipient alone. If it succeeds the mail is in the outbox, then the request
\* is marked sent, then rendered. If the gateway fails the error leaves the
\* request: nothing more is dispatched, marked sent or rendered.
C10_SendThenMark ==
    [][ValidShare(request') =>
          /\ Cardinality(SendEvents(trace')) = 1
          /\ trace'[1].ev = "send_mail"
          /\ trace'[1].to = <<request'.data.to>>
          /\ \/ /\ trace'[1].ok
                /\ trace' = <<SendMailEvent(<<request'.data.to>>, TRUE), Event("sent"),
                              Event("render")>>
                /\ Len(outbox') = Len(outbox) + 1
                /\ SubSeq(outbox', 1, Len(outbox)) = outbox
                /\ outbox'[Len(outbox')].recipient_list = <<request'.data.to>>
                /\ response'.kind = "render"
                /\ response'.sent
             \/ /\ ~trace'[1].ok
                /\ Len(trace') = 1
                /\ outbox' = outbox
                /\ response'.kind = "error"
                /\ response'.exc = "DeliveryError"
                /\ ~response'.sent]_vars

C10_Witness ==
    /\ ValidShare(request)
    /\ response.kind = "render"
    /\ response.sent
    /\ Len(outbox) = 1
    /\ outbox[1].recipient_list = <<OtherEmail>>

(***************************************************************************)
(* Properties of post_comment                                              *)
(***************************************************************************)
\* The request is a comment POST with valid fields on a published post.
ValidComment(req) ==
    /\ req.view = "post_comment"
    /\ req.method = "POST"
    /\ CommentFormErrors(req.data) = {}
    /\ PublishedPostById(req.post_id) # {}

\* C5: a valid comment POST on a published post appends one comment to the
\* store, bound to that post and active; the comments already there stay as
\* they were.
C5_OneActiveComment ==
    [][ValidComment(request') =>
          /\ Len(comments') = Len(comments) + 1
          /\ SubSeq(comments', 1, Len(comments)) = comments
          /\ comments'[Len(comments')].post = request'.post_id
          /\ comments'[Len(comments')].active
          /\ comments'[Len(comments')].name = request'.data.name
          /\ comments'[Len(comments')].body = request'.data.body
          /\ response'.kind = "render"
          /\ response'.comment = comments'[Len(comments')]]_vars

C5_Witness ==
    /\ ValidComment(request)
    /\ Len(comments) = 2
    /\ comments[2].post = request.post_id
    /\ comments[2].active
    /\ response.comment = comments[2]

\* A step served a comment request that was no valid POST on a published post:
\* the store is as before and the answer is the one for the case.
RejectedCommentStep ==
    (request'.view = "post_comment" /\ ~ValidComment(request')) =>
        /\ comments' = comments
        /\ (request'.method # "POST" => response'.kind = "MethodNotAllowed")
        /\ (request'.method = "POST" /\ PublishedPostById(request'.post_id) = {})
               => response'.kind = "NotFound"
        /\ (request'.method = "POST" /\ PublishedPostById(request'.post_id) # {})
               => /\ response'.kind = "render"
                  /\ response'.comment = NoComment
                  /\ response'.form.errors # {}
                  /\ response'.post.id = request'.post_id

\* Every stored comment belongs to a stored post that was PUBLISHED when the
\* comment was submitted.
CommentsOnPublishedPosts ==
    /\ Len(submitted) = Len(comments)
    /\ \A k \in 1..Len(comments) :
           /\ comments[k].post \in 1..Len(posts)
           /\ submitted[k] = PUBLISHED

\* C6: a comment request that is not a valid POST on a published post leaves
\* the comment store alone (GET: method not allowed; invalid fields: errored
\* form and no comment; missing or DRAFT post: NotFound), so every stored
\* comment references an existing post that was PUBLISHED at submission.
C6_StoreUntouched == [][RejectedCommentStep]_vars /\ []CommentsOnPublishedPosts

C6_Witness ==
    /\ request.view = "post_comment"
    /\ request.method = "POST"
    /\ CommentFormErrors(request.data) = {}
    /\ request.post_id \in 1..Len(posts)
    /\ posts[request.post_id].status = DRAFT
    /\ response.kind = "NotFound"
    /\ Len(comments) > 0

(***************************************************************************)
(* Properties of the user manager                                          *)
(***************************************************************************)
\* C8: create_superuser always yields is_staff and is_superuser true, whatever
\* extra_fields passes; create_user yields both false when neither is passed.
C8_SuperuserForced ==
    /\ (userResult.op = "create_superuser" /\ userResult.kind = "user") =>
           (userResult.user.is_staff /\ userResult.user.is_superuser)
    /\ (/\ userResult.op = "create_user"
        /\ userResult.kind = "user"
        /\ "is_staff" \notin DOMAIN userResult.extra_fields
        /\ "is_superuser" \notin DOMAIN userResult.extra_fields) =>
           (~userResult.user.is_staff /\ ~userResult.user.is_superuser)

\* A creation call without an e-mail fails with ValidationError, one whose
\* e-mail a stored user holds fails with DuplicateKeyError; neither touches
\* the user table.
FailedCreationStep ==
    /\ (userResult'.op # "" /\ userResult'.email = <<>>) =>
           /\ userResult'.kind = "error"
           /\ userResult'.exc = "ValidationError"
           /\ users' = users
    /\ (userResult'.op # "" /\ \E u \in users : u.email = userResult'.email) =>
           /\ userResult'.kind = "error"
           /\ userResult'.exc = "DuplicateKeyError"
           /\ users' = users

\* Every stored user has an e-mail; no two share an e-mail or a username.
UsersUnique ==
    \A u \in users :
        /\ u.email # <<>>
        /\ \A v \in users : (u.email = v.email \/ u.username = v.username) => u = v

\* C9: creation without an e-mail, or with one already stored, fails and
\* changes no user record; so every stored user has a non-empty e-mail and
\* e-mails and usernames are unique.
C9_CreationGuards == [][FailedCreationStep]_vars /\ []UsersUnique

C9_Witness ==
    /\ userResult.kind = "error"
    /\ userResult.exc = "DuplicateKeyError"
    /\ \E u \in users : u.email = userResult.email
    /\ Cardinality(users) = 2

====
